---- MODULE Spec2Model ----
(***************************************************************************)
(* A model of src/lzw.py: the 12-bit codeword reader Binary12BitInput, the *)
(* symbol table CodewordTable and the LZW expansion generator LZW.expand.  *)
(*                                                                         *)
(* A Python str is modelled as the sequence of its character codes, so     *)
(* chr(x) is <<x>>, s + t is s \o t and s[0] is s[1].  A Python list is a  *)
(* sequence whose Python index i is the TLA+ index i + 1.                  *)
(*                                                                         *)
(* Three specifications share the variables:                               *)
(*   Spec        LZW(codewords, table_size).expand() pulled to its end     *)
(*   SpecTable   a CodewordTable on its own, under arbitrary puts          *)
(*   SpecReader  Binary12BitInput(filename) iterated to its end            *)
(***************************************************************************)
EXTENDS Integers, Sequences, FiniteSets

VARIABLES
    \* ---- LZW / CodewordTable
    input,          \* the codewords given to LZW.__init__ (never changes)
    _codewords,     \* LZW._codewords: what the iterator has not yet handed out
    _table_size,    \* LZW._table_size
    table,          \* expand's local `table`: a CodewordTable, [_size, _table, resets]
    string,         \* expand's local `string`
    out,            \* the fragments expand has yielded so far, in order
    pc,             \* where the generator stands
    err,            \* the exception that left the generator, "" if none
    nputs,          \* observation: calls of CodewordTable.put so far
    lastput,        \* observation: the string of the latest put
    \* ---- Binary12BitInput
    file,           \* the bytes of the file
    filepos,        \* the file object's read position
    buffer,         \* Binary12BitInput.buffer
    has_16bit_element,
    n_12bits,
    n,
    current_bytes,
    _finished,
    closed,         \* whether self.file.close() has been called
    rout,           \* the values __next__ has returned so far, in order
    rstatus,        \* "open", "StopIteration" or "IndexError"
    ncalls          \* observation: calls of _get_next_byte so far

lzwvars    == <<input, _codewords, _table_size, table, string, out, pc, err, nputs,
                lastput>>
readervars == <<file, filepos, buffer, has_16bit_element, n_12bits, n,
                current_bytes, _finished, closed, rout, rstatus, ncalls>>
vars       == <<lzwvars, readervars>>

(***************************************************************************)
(* Bounds of the model.                                                    *)
(***************************************************************************)
MaxCodewords == 4     \* longest arbitrary codeword sequence given to LZW
MaxStrLen    == 6     \* longest source string handed to the reference encoder
MaxExtra     == 3     \* table sizes 256 .. 256 + MaxExtra are explored
MaxPuts      == 6     \* puts on a CodewordTable on its own
MaxFileLen   == 6     \* longest file, in bytes

\* LZW.__init__'s default table_size.
DefaultTableSize == 4096

\* range(256) of CodewordTable._reset: the single-character entries.
NChars == 256

(***************************************************************************)
(* Helpers on sequences.                                                   *)
(***************************************************************************)
RECURSIVE SeqsUpTo(_, _)
SeqsUpTo(S, k) ==
    IF k = 0 THEN {<<>>}
    ELSE LET shorter == SeqsUpTo(S, k - 1)
         IN  shorter \cup {Append(s, x) : s \in {t \in shorter : Len(t) = k - 1}, x \in S}

\* io.StringIO writes of to_string: the fragments joined in order.
RECURSIVE Flatten(_)
Flatten(frags) ==
    IF frags = <<>> THEN <<>> ELSE Head(frags) \o Flatten(Tail(frags))

(***************************************************************************)
(* CodewordTable.  `resets` counts the calls of _reset (the constructor    *)
(* makes the first one); it is an observation, the code keeps no counter.  *)
(***************************************************************************)
_reset(t) ==
    [t EXCEPT !._table = [x \in 1..NChars |-> <<x - 1>>],
              !.resets = @ + 1]

CodewordTable(size) ==
    _reset([_size |-> size, _table |-> <<>>, resets |-> 0])

\* put as it would be with the capacity test one entry late.
put_ResetLate(t, s) ==
    LET t1 == IF Len(t._table) > t._size THEN _reset(t) ELSE t
    IN  [t1 EXCEPT !._table = Append(@, s)]

put(t, s) ==
    LET t1 == IF Len(t._table) >= t._size THEN _reset(t) ELSE t
    IN  [t1 EXCEPT !._table = Append(@, s)]

\* Whether self._table[codeword] is an element (codewords are never negative
\* here); otherwise the subscript raises IndexError.
InTable(t, codeword) == codeword + 1 <= Len(t._table)

\* get as it would be with a subscript one too low.
get_OffByOne(t, codeword) == t._table[codeword]

get(t, codeword) == t._table[codeword + 1]

\* The value of `table` before expand has run its first line.
NoTable == [_size |-> 0, _table |-> <<>>, resets |-> 0]

(***************************************************************************)
(* Inputs.                                                                 *)
(***************************************************************************)
Chars        == {65, 66}
CodewordSet  == Chars \cup {256, 257, 258, 4097}
TableSizes   == {0, 255} \cup (NChars .. NChars + MaxExtra) \cup {DefaultTableSize}
PutStrings   == {<<65>>, <<65, 66>>}

(***************************************************************************)
(* The reference LZW encoder of the round-trip claim: the dictionary       *)
(* starts as the 256 single characters, the longest dictionary string that *)
(* is a prefix of the rest is emitted, and that string plus the next       *)
(* character is learned.  It never resets.                                 *)
(***************************************************************************)
IsPrefix(p, s) == Len(p) <= Len(s) /\ SubSeq(s, 1, Len(p)) = p

\* The index (= codeword + 1) of the longest entry of dict that is a prefix of s.
LongestMatch(dict, s) ==
    CHOOSE i \in 1..Len(dict) :
        /\ IsPrefix(dict[i], s)
        /\ \A j \in 1..Len(dict) : IsPrefix(dict[j], s) => Len(dict[j]) <= Len(dict[i])

RECURSIVE EncodeFrom(_, _)
EncodeFrom(dict, s) ==
    IF s = <<>> THEN <<>>
    ELSE LET i    == LongestMatch(dict, s)
             w    == dict[i]
             rest == SubSeq(s, Len(w) + 1, Len(s))
         IN  IF rest = <<>> THEN <<i - 1>>
             ELSE <<i - 1>> \o EncodeFrom(Append(dict, Append(w, rest[1])), rest)

Encode(s) == EncodeFrom([x \in 1..NChars |-> <<x - 1>>], s)

SrcStrings == SeqsUpTo(Chars, MaxStrLen) \ {<<>>}
Encoded    == {<<s, Encode(s)>> : s \in SrcStrings}

Inputs == SeqsUpTo(CodewordSet, MaxCodewords) \cup {p[2] : p \in Encoded}

(***************************************************************************)
(* LZW(codewords, table_size): the state after __init__.  expand is a      *)
(* generator, so nothing of its body has run yet.                          *)
(***************************************************************************)
ReaderIdle ==
    /\ file = <<>> /\ filepos = 0 /\ buffer = <<>>
    /\ has_16bit_element = FALSE /\ n_12bits = 0 /\ n = 1
    /\ current_bytes = <<>> /\ _finished = FALSE /\ closed = FALSE
    /\ rout = <<>> /\ rstatus = "idle" /\ ncalls = 0

LZWInit(codewords, table_size) ==
    /\ input = codewords
    /\ _codewords = codewords
    /\ _table_size = table_size
    /\ table = NoTable
    /\ string = <<>>
    /\ out = <<>>
    /\ pc = "created"
    /\ err = ""
    /\ nputs = 0
    /\ lastput = <<>>

Init ==
    /\ \E codewords \in Inputs, table_size \in TableSizes : LZWInit(codewords, table_size)
    /\ ReaderIdle

(***************************************************************************)
(* The first pull of expand(): lines 126-130.                              *)
(***************************************************************************)
\* Line 128 as it would be if the StopIteration of next() ended the generator.
FirstOnEmpty_Return ==
    /\ pc' = "done"
    /\ err' = ""
    /\ UNCHANGED <<_codewords, string, out>>

\* Line 128 on an exhausted iterator: next() raises StopIteration inside the
\* generator, which Python (PEP 479) hands to the caller as RuntimeError.
FirstOnEmpty ==
    /\ pc' = "failed"
    /\ err' = "RuntimeError"
    /\ UNCHANGED <<_codewords, string, out>>

\* Lines 128-130 as they would be if a failed first lookup ended the generator.
FirstOnCodeword_Swallow(t, cw0) ==
    /\ _codewords' = Tail(_codewords)
    /\ IF InTable(t, cw0)
       THEN /\ string' = get(t, cw0)
            /\ out' = Append(out, string')
            /\ pc' = "loop"
            /\ err' = ""
       ELSE /\ pc' = "done"
            /\ err' = ""
            /\ UNCHANGED <<string, out>>

\* Lines 128-130 as they would be if the first pull read one codeword ahead.
FirstOnCodeword_ReadAhead(t, cw0) ==
    /\ _codewords' = IF Len(_codewords) >= 2 THEN Tail(Tail(_codewords))
                     ELSE Tail(_codewords)
    /\ IF InTable(t, cw0)
       THEN /\ string' = get(t, cw0)
            /\ out' = Append(out, string')
            /\ pc' = "loop"
            /\ err' = ""
       ELSE /\ pc' = "failed"
            /\ err' = "IndexError"
            /\ UNCHANGED <<string, out>>

\* Lines 128-130 with a first codeword: the lookup is outside any try.
FirstOnCodeword(t, cw0) ==
    /\ _codewords' = Tail(_codewords)
    /\ IF InTable(t, cw0)
       THEN /\ string' = get(t, cw0)
            /\ out' = Append(out, string')
            /\ pc' = "loop"
            /\ err' = ""
       ELSE /\ pc' = "failed"
            /\ err' = "IndexError"
            /\ UNCHANGED <<string, out>>

ExpandFirst ==
    /\ pc = "created"
    /\ table' = CodewordTable(_table_size)
    /\ IF _codewords = <<>>
       THEN FirstOnEmpty
       ELSE FirstOnCodeword(table', Head(_codewords))
    /\ UNCHANGED <<input, _table_size, nputs, lastput, readervars>>

(***************************************************************************)
(* A later pull that finds a codeword: one turn of the for loop, lines     *)
(* 132-146.                                                                *)
(***************************************************************************)
\* The try body as it would be if it learned string + ch1, not string + ch1[0].
TryBody_WholeString(cw1) ==
    LET ch1         == get(table, cw1)
        table_entry == string \o ch1
    IN  /\ table' = put(table, table_entry)
        /\ lastput' = table_entry
        /\ nputs' = nputs + 1
        /\ string' = ch1
        /\ UNCHANGED <<pc, err>>

\* The try body as it would be if it emitted the learned entry, not the one found.
TryBody_EmitEntry(cw1) ==
    LET ch1         == get(table, cw1)
        table_entry == string \o <<ch1[1]>>
    IN  /\ table' = put(table, table_entry)
        /\ lastput' = table_entry
        /\ nputs' = nputs + 1
        /\ string' = table_entry
        /\ UNCHANGED <<pc, err>>

\* The try body as it would be if it learned ch1[0] alone, without string.
TryBody_FirstCharOnly(cw1) ==
    LET ch1         == get(table, cw1)
        table_entry == <<ch1[1]>>
    IN  /\ table' = put(table, table_entry)
        /\ lastput' = table_entry
        /\ nputs' = nputs + 1
        /\ string' = ch1
        /\ UNCHANGED <<pc, err>>

\* The try body, lines 134-138, when table.get(cw1) succeeds.
TryBody(cw1) ==
    LET ch1         == get(table, cw1)
        table_entry == string \o <<ch1[1]>>
    IN  /\ table' = put(table, table_entry)
        /\ lastput' = table_entry
        /\ nputs' = nputs + 1
        /\ string' = ch1
        /\ UNCHANGED <<pc, err>>

\* The loop as it would be without the except clause: IndexError leaves expand.
ExceptBody_Reraise(cw1) ==
    /\ pc' = "failed"
    /\ err' = "IndexError"
    /\ UNCHANGED <<table, lastput, nputs, string>>

\* The except body as it would be with string[-1] in place of string[0].
ExceptBody_LastChar(cw1) ==
    LET table_entry == string \o <<string[Len(string)]>>
    IN  /\ table' = put(table, table_entry)
        /\ lastput' = table_entry
        /\ nputs' = nputs + 1
        /\ string' = table_entry
        /\ UNCHANGED <<pc, err>>

\* The except body as it would be if it accepted only the codeword of the entry
\* being built (the next free index) and let any other miss leave expand.
ExceptBody_OnlyNext(cw1) ==
    IF cw1 = Len(table._table)
    THEN LET table_entry == string \o <<string[1]>>
         IN  /\ table' = put(table, table_entry)
             /\ lastput' = table_entry
             /\ nputs' = nputs + 1
             /\ string' = table_entry
             /\ UNCHANGED <<pc, err>>
    ELSE /\ pc' = "failed"
         /\ err' = "IndexError"
         /\ UNCHANGED <<table, lastput, nputs, string>>

\* The except body, lines 141-144, when table.get(cw1) raises IndexError.
ExceptBody(cw1) ==
    LET table_entry == string \o <<string[1]>>
    IN  /\ table' = put(table, table_entry)
        /\ lastput' = table_entry
        /\ nputs' = nputs + 1
        /\ string' = table_entry
        /\ UNCHANGED <<pc, err>>

ExpandStep ==
    /\ pc = "loop"
    /\ _codewords # <<>>
    /\ LET cw1 == Head(_codewords)
       IN  /\ _codewords' = Tail(_codewords)
           /\ IF InTable(table, cw1) THEN TryBody(cw1) ELSE ExceptBody(cw1)
    /\ out' = IF pc' = "loop" THEN Append(out, string') ELSE out
    /\ UNCHANGED <<input, _table_size, readervars>>

\* A later pull that finds the iterator exhausted: the for loop ends and the
\* generator returns (StopIteration for the consumer: the normal end).
ExpandEnd ==
    /\ pc = "loop"
    /\ _codewords = <<>>
    /\ pc' = "done"
    /\ UNCHANGED <<input, _codewords, _table_size, table, string, out, err, nputs,
                   lastput, readervars>>

Next == ExpandFirst \/ ExpandStep \/ ExpandEnd

Spec == Init /\ [][Next]_vars

(***************************************************************************)
(* A CodewordTable on its own: CodewordTable(size), then any puts.         *)
(***************************************************************************)
TableInit ==
    /\ \E size \in TableSizes :
          /\ table = CodewordTable(size)
          /\ _table_size = size
    /\ input = <<>> /\ _codewords = <<>> /\ string = <<>> /\ out = <<>>
    /\ pc = "table" /\ err = "" /\ nputs = 0 /\ lastput = <<>>
    /\ ReaderIdle

TablePut ==
    /\ pc = "table"
    /\ nputs < MaxPuts
    /\ \E s \in PutStrings : table' = put(table, s) /\ lastput' = s
    /\ nputs' = nputs + 1
    /\ UNCHANGED <<input, _codewords, _table_size, string, out, pc, err, readervars>>

TableNext == TablePut

SpecTable == TableInit /\ [][TableNext]_vars

(***************************************************************************)
(* Python's integer operators on non-negative integers.                    *)
(***************************************************************************)
RECURSIVE Pow2(_)
Pow2(k) == IF k = 0 THEN 1 ELSE 2 * Pow2(k - 1)

ShiftLeft(x, k)  == x * Pow2(k)
ShiftRight(x, k) == x \div Pow2(k)

RECURSIVE BitAnd(_, _)
BitAnd(a, b) ==
    IF a = 0 \/ b = 0 THEN 0
    ELSE (IF a % 2 = 1 /\ b % 2 = 1 THEN 1 ELSE 0) + 2 * BitAnd(a \div 2, b \div 2)

RECURSIVE BitOr(_, _)
BitOr(a, b) ==
    IF a = 0 THEN b
    ELSE IF b = 0 THEN a
    ELSE (IF a % 2 = 1 \/ b % 2 = 1 THEN 1 ELSE 0) + 2 * BitOr(a \div 2, b \div 2)

Min(a, b) == IF a <= b THEN a ELSE b

(***************************************************************************)
(* Binary12BitInput.                                                       *)
(***************************************************************************)
\* io.DEFAULT_BUFFER_SIZE is 8192 in CPython; the model reads in chunks small
\* enough for refills to happen within MaxFileLen bytes.
DEFAULT_BUFFER_SIZE == 2

Bytes == {18, 171, 240}
Files == SeqsUpTo(Bytes, MaxFileLen)

\* self.file.read(k) at position pos: the bytes returned.
FileRead(f, pos, k) == SubSeq(f, pos + 1, Min(pos + k, Len(f)))

nbitsOf(f) == Len(f) * 8

Has16BitElement(nbits) == nbits % 12 # 0 /\ nbits >= 16

\* n_12bits as it would be if the count were rounded up.
N12Bits_Ceil(nbits) == (nbits + 11) \div 12

N12Bits(nbits) == nbits \div 12

\* The counter's first value.
FirstN == 1

\* _get_next_byte on (buffer, file position): ok is FALSE when popleft finds
\* the deque empty (IndexError); the refill has happened by then.
_get_next_byte(buf, pos) ==
    LET chunk == IF buf = <<>> THEN FileRead(file, pos, DEFAULT_BUFFER_SIZE) ELSE <<>>
        buf1  == IF buf = <<>> THEN chunk ELSE buf
        pos1  == pos + Len(chunk)
    IN  IF buf1 = <<>>
        THEN [ok |-> FALSE, byte |-> 0, buffer |-> buf1, filepos |-> pos1]
        ELSE [ok |-> TRUE, byte |-> Head(buf1), buffer |-> Tail(buf1), filepos |-> pos1]

\* The codeword of the odd branch (lines 61-64) and of the even branch (73-75).
OddCodeword(b0, b1) ==
    LET top_4bits   == ShiftLeft(b0, 4)
        lower_8bits == ShiftRight(BitAnd(b1, 240), 4)
    IN  BitOr(top_4bits, lower_8bits)

\* The even branch as it would be without the & 0x0F of line 73.
EvenCodeword_NoMask(b0, b1) ==
    LET top_4bits   == ShiftLeft(b0, 8)
        lower_8bits == b1
    IN  BitOr(top_4bits, lower_8bits)

EvenCodeword(b0, b1) ==
    LET top_4bits   == ShiftLeft(BitAnd(b0, 15), 8)
        lower_8bits == b1
    IN  BitOr(top_4bits, lower_8bits)

\* The padded last element (line 83).
TailCodeword(b0, b1) == BitOr(ShiftLeft(b0, 8), b1)

LZWIdle ==
    /\ input = <<>> /\ _codewords = <<>> /\ _table_size = DefaultTableSize
    /\ table = NoTable /\ string = <<>> /\ out = <<>>
    /\ pc = "idle" /\ err = "" /\ nputs = 0 /\ lastput = <<>>

\* Binary12BitInput(filename) over a file holding the bytes f.
ReaderInit ==
    /\ \E f \in Files :
          /\ file = f
          /\ has_16bit_element = Has16BitElement(nbitsOf(f))
          /\ n_12bits = N12Bits(nbitsOf(f))
          /\ current_bytes = FileRead(f, 0, 2)
          /\ filepos = Len(FileRead(f, 0, 2))
    /\ buffer = <<>>
    /\ n = FirstN
    /\ _finished = FALSE
    /\ closed = FALSE
    /\ rout = <<>>
    /\ rstatus = "open"
    /\ ncalls = 0
    /\ LZWIdle

\* __next__ on a finished reader as it would be if it rewound the reader.
NextExhausted_Restart ==
    /\ rstatus \in {"open", "StopIteration"}
    /\ _finished
    /\ closed' = TRUE
    /\ rstatus' = "StopIteration"
    /\ _finished' = FALSE
    /\ UNCHANGED <<file, filepos, buffer, has_16bit_element, n_12bits, n,
                   current_bytes, rout, ncalls, lzwvars>>

\* __next__ on a finished reader: lines 51-53.
NextExhausted ==
    /\ rstatus \in {"open", "StopIteration"}
    /\ _finished
    /\ closed' = TRUE
    /\ rstatus' = "StopIteration"
    /\ UNCHANGED <<file, filepos, buffer, has_16bit_element, n_12bits, n,
                   current_bytes, _finished, rout, ncalls, lzwvars>>

\* __next__ in the packed branch, lines 56-79 and 89.
NextPacked ==
    /\ rstatus \in {"open", "StopIteration"}
    /\ ~_finished
    /\ n < n_12bits
    /\ IF Len(current_bytes) < 2
       THEN \* current_bytes[0] or [1] does not exist
            /\ rstatus' = "IndexError"
            /\ UNCHANGED <<filepos, buffer, n, current_bytes, rout, ncalls>>
       ELSE IF BitAnd(n, 1) = 1
       THEN LET c12bit_codeword == OddCodeword(current_bytes[1], current_bytes[2])
                g == _get_next_byte(buffer, filepos)
            IN  /\ buffer' = g.buffer
                /\ filepos' = g.filepos
                /\ ncalls' = ncalls + 1
                /\ IF g.ok
                   THEN /\ current_bytes' = <<current_bytes[2], g.byte>>
                        /\ n' = n + 1
                        /\ rout' = Append(rout, c12bit_codeword)
                        /\ rstatus' = "open"
                   ELSE /\ current_bytes' = <<current_bytes[2], current_bytes[2]>>
                        /\ rstatus' = "IndexError"
                        /\ UNCHANGED <<n, rout>>
       ELSE LET c12bit_codeword == EvenCodeword(current_bytes[1], current_bytes[2])
                g1 == _get_next_byte(buffer, filepos)
                g2 == _get_next_byte(g1.buffer, g1.filepos)
            IN  IF ~g1.ok
                THEN /\ buffer' = g1.buffer /\ filepos' = g1.filepos
                     /\ ncalls' = ncalls + 1
                     /\ rstatus' = "IndexError"
                     /\ UNCHANGED <<current_bytes, n, rout>>
                ELSE /\ buffer' = g2.buffer /\ filepos' = g2.filepos
                     /\ ncalls' = ncalls + 2
                     /\ IF g2.ok
                        THEN /\ current_bytes' = <<g1.byte, g2.byte>>
                             /\ n' = n + 1
                             /\ rout' = Append(rout, c12bit_codeword)
                             /\ rstatus' = "open"
                        ELSE /\ rstatus' = "IndexError"
                             /\ UNCHANGED <<current_bytes, n, rout>>
    /\ UNCHANGED <<file, has_16bit_element, n_12bits, _finished, closed, lzwvars>>

\* __next__ when the packed codewords are done and the last element is the
\* 16-bit one: lines 81-84 and 89.
NextTail ==
    /\ rstatus \in {"open", "StopIteration"}
    /\ ~_finished
    /\ ~(n < n_12bits)
    /\ has_16bit_element
    /\ IF Len(current_bytes) < 2
       THEN /\ rstatus' = "IndexError"
            /\ UNCHANGED <<_finished, rout>>
       ELSE /\ _finished' = TRUE
            /\ rout' = Append(rout, TailCodeword(current_bytes[1], current_bytes[2]))
            /\ rstatus' = "open"
    /\ UNCHANGED <<file, filepos, buffer, has_16bit_element, n_12bits, n,
                   current_bytes, closed, ncalls, lzwvars>>

\* __next__ when the packed codewords are done and there is no 16-bit
\* element: lines 86-89.  c12bit_codeword is still the 0 of line 55, and
\* line 89 returns it.
NextLast ==
    /\ rstatus \in {"open", "StopIteration"}
    /\ ~_finished
    /\ ~(n < n_12bits)
    /\ ~has_16bit_element
    /\ _finished' = TRUE
    /\ rout' = Append(rout, 0)
    /\ rstatus' = "open"
    /\ UNCHANGED <<file, filepos, buffer, has_16bit_element, n_12bits, n,
                   current_bytes, closed, ncalls, lzwvars>>

ReaderNext == NextExhausted \/ NextPacked \/ NextTail \/ NextLast

SpecReader == ReaderInit /\ [][ReaderNext]_vars

\* The reader under a consumer that keeps calling __next__.
SpecReaderFair == SpecReader /\ WF_vars(ReaderNext)

(***************************************************************************)
(* The codewords test_binary_input computes on its own (test_lzw.py, lines *)
(* 96-113) for the bytes bs: i is the byte index, k the codeword counter.  *)
(***************************************************************************)
RECURSIVE ExpectedPacked(_, _, _)
ExpectedPacked(bs, i, k) ==
    IF ~(k < N12Bits(nbitsOf(bs)))
    THEN IF Has16BitElement(nbitsOf(bs))
         THEN <<BitOr(ShiftLeft(bs[i + 1], 8), bs[i + 2])>>
         ELSE <<>>
    ELSE IF k % 2 # 0
    THEN <<BitOr(ShiftLeft(bs[i + 1], 4), ShiftRight(BitAnd(bs[i + 2], 240), 4))>>
             \o ExpectedPacked(bs, i + 1, k + 1)
    ELSE <<BitOr(ShiftLeft(BitAnd(bs[i + 1], 15), 8), bs[i + 2])>>
             \o ExpectedPacked(bs, i + 2, k + 1)

ExpectedCodewords(bs) == ExpectedPacked(bs, 0, 1)

(***************************************************************************)
(* Claims.                                                                 *)
(***************************************************************************)

\* C1: round trip without reset.  When the codewords given to the decoder are
\* the reference encoder's output for a non-empty string s and the decoder has
\* made no reset beyond the one of the table's construction, the fragments of
\* a finished expand, joined in order, are s.
C1_RoundTrip ==
    (pc = "done" /\ table.resets = 1) =>
        \A p \in Encoded : p[2] = input => Flatten(out) = p[1]

\* A finished decode of an encoded string of full length whose encoding is
\* shorter than the string (learned entries were used), in a small table that
\* never filled.
C1_Witness ==
    /\ pc = "done"
    /\ table.resets = 1
    /\ _table_size < DefaultTableSize
    /\ \E p \in Encoded :
          /\ p[2] = input
          /\ Len(p[1]) = MaxStrLen
          /\ Len(p[2]) < Len(p[1])
          /\ Flatten(out) = p[1]

\* C2: output length.  For a codeword sequence whose first codeword is below
\* 256 and a table_size of at least 256, expand never fails, has yielded one
\* fragment per codeword consumed, and when it ends has yielded as many
\* fragments as there are codewords.
C2_OutputLength ==
    (input # <<>> /\ input[1] < NChars /\ _table_size >= NChars) =>
        /\ pc # "failed"
        /\ Len(out) = Len(input) - Len(_codewords)
        /\ (pc = "done" => Len(out) = Len(input))

\* A finished decode with a lookup miss and resets on the way.
C2_Witness ==
    /\ pc = "done"
    /\ input = <<65, 4097, 258, 66>>
    /\ _table_size = NChars + 1
    /\ table.resets > 1
    /\ Len(out) = 4

\* C3: single-character decoding.  When every codeword is below 256 and
\* table_size is at least 256, the i-th fragment is the one-character string
\* of the i-th codeword, and a finished decode has one fragment per codeword.
C3_SingleChars ==
    ((\A i \in 1..Len(input) : input[i] < NChars) /\ _table_size >= NChars) =>
        /\ Len(out) <= Len(input)
        /\ \A i \in 1..Len(out) : out[i] = <<input[i]>>
        /\ (pc = "done" => Len(out) = Len(input))
        /\ (input # <<>> => pc # "failed")

\* A finished decode of single characters in a table small enough to reset
\* more than once.
C3_Witness ==
    /\ pc = "done"
    /\ input = <<65, 66, 66, 65>>
    /\ _table_size = NChars
    /\ table.resets > 2
    /\ out = <<<<65>>, <<66>>, <<66>>, <<65>>>>

\* C4: table capacity.  For every table_size of at least 256 the table never
\* holds more than table_size entries.
C4_Capacity ==
    (pc = "table" /\ _table_size >= NChars) => Len(table._table) <= _table_size

\* C5: reset boundary.  On a fresh table of size table_size >= 256 the first
\* table_size - 256 puts make no reset and the table grows by one entry each,
\* to exactly table_size entries; the next put makes exactly one reset and
\* leaves 257 entries: the 256 single characters, then the string just put,
\* and nothing beyond.
C5_ResetBoundary ==
    (pc = "table" /\ _table_size >= NChars) =>
        /\ (nputs <= _table_size - NChars =>
                /\ table.resets = 1
                /\ Len(table._table) = NChars + nputs)
        /\ (nputs = _table_size - NChars => Len(table._table) = _table_size)
        /\ (nputs = _table_size - NChars + 1 =>
                /\ table.resets = 2
                /\ Len(table._table) = NChars + 1
                /\ \A c \in 0..(NChars - 1) : get(table, c) = <<c>>
                /\ get(table, NChars) = lastput
                /\ \A c \in (NChars + 1)..(_table_size + 1) : ~InTable(table, c))

\* The put after the table of size 258 became full.
C5_Witness ==
    /\ pc = "table"
    /\ _table_size = NChars + 2
    /\ nputs = 3
    /\ table.resets = 2
    /\ Len(table._table) = NChars + 1
    /\ lastput = <<65, 66>>

\* C6: bit-unpacking equality.  For a file of at least 2 bytes, the values
\* the reader has returned when it signals the end are the independently
\* computed ones: the packed codewords, then the 16-bit tail if and only if
\* there is one, and nothing else.
C6_UnpackEquality ==
    (Len(file) >= 2 /\ rstatus = "StopIteration") => rout = ExpectedCodewords(file)

\* C7: degenerate sources.  For a file of 0 or 1 byte the reader returns no
\* value at all: its first call signals the end.
C7_Degenerate ==
    (pc = "idle" /\ Len(file) <= 1) =>
        /\ rout = <<>>
        /\ (_finished => rstatus = "StopIteration")

\* C8: no read past the end.  The bytes taken from the file, the initial
\* window and one per _get_next_byte call, never exceed the file's length:
\* no _get_next_byte call finds the source empty and the window is never
\* subscripted where it holds nothing (either would raise IndexError).
C8_NoReadPast ==
    pc = "idle" =>
        /\ rstatus # "IndexError"
        /\ Min(2, Len(file)) + ncalls <= Len(file)
        /\ filepos - Len(buffer) = Min(2, Len(file)) + ncalls

\* An exhausted reader that has taken every byte of a file of 5 bytes or more.
C8_Witness ==
    /\ rstatus = "StopIteration"
    /\ Len(file) >= 5
    /\ 2 + ncalls = Len(file)
    /\ buffer = <<>>

\* C9: configuration rejection.  With table_size below 256 the decoder is
\* refused at construction with a ConfigurationError: no codeword is ever
\* consumed and no fragment ever produced.
C9_ConfigRejected ==
    (pc # "idle" /\ pc # "table" /\ _table_size < NChars) =>
        /\ pc = "failed"
        /\ err = "ConfigurationError"
        /\ _codewords = input
        /\ out = <<>>

\* C10: empty input.  Once expand has been pulled on an empty codeword
\* sequence it has failed with an exception for the caller, has produced no
\* fragment, and so has not ended as a normal empty output sequence.
C10_EmptyInput ==
    (input = <<>> /\ pc \notin {"created", "idle", "table"}) =>
        /\ pc = "failed"
        /\ err # ""
        /\ out = <<>>

\* The pull on an empty sequence has happened.
C10_Witness ==
    /\ input = <<>>
    /\ pc = "failed"
    /\ err = "RuntimeError"
    /\ table.resets = 1

\* C11: malformed first codeword.  When the first codeword is 256 or more
\* (table_size at least 256), the first pull of expand fails with an exception
\* for the caller: no fragment is emitted, nothing is put into the table, and
\* the table holds its 256 initial entries.
C11_MalformedFirst ==
    (input # <<>> /\ input[1] >= NChars /\ _table_size >= NChars /\ pc # "created") =>
        /\ pc = "failed"
        /\ err = "IndexError"
        /\ out = <<>>
        /\ nputs = 0
        /\ Len(table._table) = NChars
        /\ Len(_codewords) = Len(input) - 1

\* The first pull on a sequence that starts with 256 has happened.
C11_Witness ==
    /\ input = <<256, 65>>
    /\ _table_size = NChars + 1
    /\ pc = "failed"
    /\ _codewords = <<65>>

\* C12: reader finiteness and exhaustion.  Under repeated calls the reader
\* eventually signals the end (StopIteration), and every call made after that
\* signals it again: no value is returned, no byte is read, and the counter and
\* the window stay as they are.
C12_Exhaustion ==
    /\ <>(rstatus = "StopIteration")
    /\ [][rstatus = "StopIteration" =>
            /\ rstatus' = "StopIteration"
            /\ UNCHANGED <<rout, filepos, buffer, ncalls, n, current_bytes, _finished>>]_vars

\* An exhausted reader of a full-length file that has returned packed values
\* and has been closed.
C12_Witness ==
    /\ rstatus = "StopIteration"
    /\ closed
    /\ _finished
    /\ Len(file) >= 5
    /\ Len(rout) >= 3

\* The input [c, 256, 257, ..., 255 + k] with c below 256.
IsRunInput(cws) ==
    /\ cws # <<>>
    /\ cws[1] < NChars
    /\ \A i \in 2..Len(cws) : cws[i] = 254 + i

\* The last entry of a table.
LastEntry(t) == t._table[Len(t._table)]

\* C13: lookup-miss step.  A pull that finds a codeword at or above the
\* current number of table entries emits prev + prev[0], prev being the
\* fragment emitted before, and that same string is the entry it appends.
\* Consequently a finished decode of [c, 256, ..., 255 + k] without reset has
\* k + 1 fragments, the j-th being c repeated j times.
C13_LookupMiss ==
    /\ [][(pc = "loop" /\ _codewords # <<>> /\ Head(_codewords) >= Len(table._table)) =>
            /\ string = out[Len(out)]
            /\ out' = Append(out, string \o <<string[1]>>)
            /\ LastEntry(table') = string \o <<string[1]>>
            /\ nputs' = nputs + 1]_vars
    /\ []((pc = "done" /\ table.resets = 1 /\ IsRunInput(input)) =>
            /\ Len(out) = Len(input)
            /\ \A j \in 1..Len(out) : out[j] = [i \in 1..j |-> input[1]])

\* The run [65, 256, 257, 258] has been decoded with three misses in a row.
C13_Witness ==
    /\ pc = "done"
    /\ input = <<65, 256, 257, 258>>
    /\ table.resets = 1
    /\ out[4] = <<65, 65, 65, 65>>
    /\ LastEntry(table) = <<65, 65, 65, 65>>

\* C14: lookup-hit step.  A pull that finds a codeword below the current
\* number of table entries emits the entry found there before the append, and
\* appends prev + (first character of that entry), prev being the fragment
\* emitted before; a reset made by that append does not change the fragment.
C14_LookupHit ==
    [][(pc = "loop" /\ _codewords # <<>> /\ Head(_codewords) < Len(table._table)) =>
         LET found == table._table[Head(_codewords) + 1]
         IN  /\ string = out[Len(out)]
             /\ out' = Append(out, found)
             /\ LastEntry(table') = string \o <<found[1]>>
             /\ nputs' = nputs + 1]_vars

\* A hit on the learned entry 256 whose append reset the table of size 257:
\* the fragment is still the entry found before the reset.
C14_Witness ==
    /\ input = <<65, 66, 256>>
    /\ _table_size = NChars + 1
    /\ pc = "done"
    /\ out = <<<<65>>, <<66>>, <<65, 66>>>>
    /\ table.resets = 2
    /\ LastEntry(table) = <<66, 65>>

\* Bit number b of the bytes bs, bit 0 being the top bit of the first byte,
\* and the big-endian 12-bit field that starts at bit offset off.
BitAt(bs, b) == (bs[(b \div 8) + 1] \div Pow2(7 - (b % 8))) % 2

Field12(bs, off) ==
    LET RECURSIVE Acc(_, _)
        Acc(j, v) == IF j = 12 THEN v ELSE Acc(j + 1, 2 * v + BitAt(bs, off + j))
    IN  Acc(0, 0)

\* C15: padded tail value.  When the bit count is not a multiple of 12 and is
\* at least 16, the last value the reader produces is the big-endian 16-bit
\* value of the final 2 bytes of the file.
C15_PaddedTail ==
    (pc = "idle" /\ Has16BitElement(nbitsOf(file)) /\ _finished) =>
        /\ rout # <<>>
        /\ rout[Len(rout)] = file[Len(file) - 1] * 256 + file[Len(file)]

\* C16: codeword range.  Every value the reader produces lies in [0, 4096),
\* the padded last one included.
C16_CodewordRange ==
    \A i \in 1..Len(rout) : rout[i] >= 0 /\ rout[i] < DefaultTableSize

\* C17: sliding-window correctness.  For every k with 1 <= k < n_12bits
\* (= total bits // 12) the k-th value produced is the 12-bit big-endian field
\* at bit offset 12 (k - 1) of the file, and while the counter n is below
\* n_12bits the window holds the two bytes that field is taken from: bytes
\* 3(n-1)/2 and 3(n-1)/2 + 1 for odd n, bytes (3n-4)/2 and (3n-2)/2 for even n.
C17_SlidingWindow ==
    pc = "idle" =>
        LET count == (Len(file) * 8) \div 12
        IN  /\ \A k \in 1..Len(rout) :
                  k < count => rout[k] = Field12(file, 12 * (k - 1))
            /\ n < count =>
                  /\ rstatus = "open"
                  /\ current_bytes =
                        IF n % 2 = 1
                        THEN <<file[(3 * (n - 1)) \div 2 + 1], file[(3 * (n - 1)) \div 2 + 2]>>
                        ELSE <<file[(3 * n - 4) \div 2 + 1], file[(3 * n - 2) \div 2 + 1]>>

\* Three packed values, from odd and even counters, of a file whose bytes
\* differ, with the counter at its end.
C17_Witness ==
    /\ file = <<18, 171, 240, 171, 18, 240>>
    /\ n = 4
    /\ rout = <<Field12(file, 0), Field12(file, 12), Field12(file, 24)>>
    /\ rout = <<298, 3056, 2737>>

\* C18: lookup miss is contained.  With a first codeword below 256 and
\* table_size at least 256, no exception ever leaves expand, and every later
\* codeword, whatever its value (far above the number of table entries
\* included), makes its pull emit a fragment rather than fail.
C18_MissContained ==
    /\ []((input # <<>> /\ input[1] < NChars /\ _table_size >= NChars) => err = "")
    /\ [][(pc = "loop" /\ _codewords # <<>> /\ _table_size >= NChars) =>
            /\ pc' = "loop"
            /\ err' = ""
            /\ Len(out') = Len(out) + 1
            /\ out'[Len(out')] # <<>>]_vars

\* Two misses on a codeword far above the table's size have been decoded.
C18_Witness ==
    /\ input = <<65, 4097, 4097, 66>>
    /\ _table_size = DefaultTableSize
    /\ pc = "done"
    /\ err = ""
    /\ out = <<<<65>>, <<65, 65>>, <<65, 65, 65>>, <<66>>>>

\* C19: lazy one-for-one pulling.  A pull that yields a fragment takes exactly
\* one codeword from the iterator and makes at most one put (none on the first
\* pull); no pull takes more than one codeword or changes a fragment already
\* yielded.  So after k fragments exactly k codewords have been taken, and
\* the fragments so far are a prefix of those of the full decode.
C19_LazyPull ==
    /\ [](pc \in {"loop", "done"} =>
            /\ Len(input) - Len(_codewords) = Len(out)
            /\ _codewords = SubSeq(input, Len(out) + 1, Len(input))
            /\ nputs = Len(out) - 1)
    /\ [][/\ Len(_codewords) - Len(_codewords') \in {0, 1}
          /\ SubSeq(out', 1, Len(out)) = out
          /\ Len(out') - Len(out) \in {0, 1}
          /\ nputs' - nputs \in {0, 1}
          /\ (out' # out =>
                /\ _codewords' = Tail(_codewords)
                /\ (pc = "created" => nputs' = nputs))]_vars

\* A consumer that has pulled 2 fragments of a 4-codeword input: 2 codewords
\* are left in the iterator and one put has been made.
C19_Witness ==
    /\ pc = "loop"
    /\ Len(input) = 4
    /\ Len(out) = 2
    /\ _codewords = SubSeq(input, 3, 4)
    /\ nputs = 1

\* C20: table well-formedness.  Once decoding of a sequence whose first
\* codeword is below 256 has started (table_size at least 256), indices 0-255
\* of the table hold the one-character string of the index, every entry from
\* index 256 on has at least 2 characters, and the fragment emitted last is
\* not empty.
C20_WellFormed ==
    (pc \in {"loop", "done"} /\ _table_size >= NChars) =>
        /\ Len(table._table) >= NChars
        /\ \A c \in 0..(NChars - 1) : table._table[c + 1] = <<c>>
        /\ \A i \in (NChars + 1)..Len(table._table) : Len(table._table[i]) >= 2
        /\ string # <<>>
        /\ string = out[Len(out)]

\* A finished decode that left three learned entries and emitted a learned one.
C20_Witness ==
    /\ pc = "done"
    /\ _table_size >= NChars
    /\ Len(table._table) = NChars + 3
    /\ Len(table._table[NChars + 3]) >= 3
    /\ Len(string) >= 2

====
